---- MODULE Spec2Model ----
(***************************************************************************)
(* A model of captcha.py, the single-file ASCII CAPTCHA generator:         *)
(* generate_code, _load_font, _text_to_ascii_lines, make_image and         *)
(* generate_image_from_cfg.                                                *)
(*                                                                         *)
(* Encodings.  A Python string is a sequence of one-character strings.     *)
(* An Optional value is <<>> for None and <<v>> for a value v, so that     *)
(* None, "" and 0 stay three different things.  Floats that the code only  *)
(* compares with 0 or multiplies by an integer are fixed-point numbers:    *)
(* the blur radii in tenths, pixel_noise_density in hundredths.            *)
(***************************************************************************)
EXTENDS Integers, Sequences, FiniteSets, TLC

VARIABLES
    fonts,      \* the font files that ImageFont.truetype can load
    globalRng,  \* the state of the process-wide generator of module random
    cfg,        \* cfg[c]: the AppConfig that call c was given
    pc,         \* pc[c]: where call c stands in generate_image_from_cfg
    rng,        \* rng[c]: the local rng: <<>> unbound, "random" the module, "Random" an instance
    ownRng,     \* ownRng[c]: the state of call c's random.Random instance, if it made one
    code,       \* code[c]: the local code
    ascii,      \* ascii[c]: the outcome of _text_to_ascii_lines
    made,       \* made[c]: the outcome of make_image
    drawn,      \* drawn[c]: the draws call c took, [own, glob, code]
    runs,       \* runs[c]: the calls slot c has completed
    history,    \* the completed calls: [cfg, code, img, err, draws]
    fr,         \* the frame of one make_image call run stage by stage
    fn          \* the arguments and the result of one function application

callVars == <<fonts, globalRng, cfg, pc, rng, ownRng, code, ascii, made, drawn, runs, history>>
vars == <<fonts, globalRng, cfg, pc, rng, ownRng, code, ascii, made, drawn, runs, history, fr, fn>>

(***************************************************************************)
(* Bounds of the model.                                                    *)
(***************************************************************************)
MaxCodeLen == 2     \* code_length ranges over 0..MaxCodeLen
MaxRuns == 2        \* calls per slot
MaxPalette == 10    \* palettes of 2..MaxPalette characters in the mapper scan
MaxSeed == 1        \* configured seeds range over 0..MaxSeed
MaxNoise == 1       \* noise_lines, blur_shapes, extra_noise_shapes range over 0..MaxNoise

None == <<>>
Some(v) == <<v>>
\* Python truthiness of an Optional[str]: None and the empty string are falsy.
\* A code is a sequence of characters, a font path an atomic string.
Truthy(o) == o # <<>> /\ o[1] # <<>>
TruthyPath(o) == o # <<>> /\ o[1] # ""

Max(a, b) == IF a >= b THEN a ELSE b

(***************************************************************************)
(* random: an abstraction of the Mersenne Twister as a full-period linear  *)
(* congruential generator over RngMod states.  A stream is [st, out]: the  *)
(* generator's state and the raw outputs taken from it so far.             *)
(***************************************************************************)
RngMod == 64
RngMul == 5
RngInc == 3

RngNext(s) == (RngMul * s + RngInc) % RngMod

\* random.Random(seed): the state a seed sets.
Seeded(seed) == (7 * seed + 1) % RngMod

Stream(s) == [st |-> s, out |-> <<>>]

\* One draw: the stream after it.
Advance(rs) == [st |-> RngNext(rs.st), out |-> Append(rs.out, RngNext(rs.st))]

\* The value of the draw just taken, scaled to 0..n-1: floor(random() * n).
Below(rs, n) == (rs.st * n) \div RngMod

\* rng.randint(a, b), a <= b: [v, rs].
randint(rs, a, b) ==
    LET r == Advance(rs) IN [v |-> a + Below(r, b - a + 1), rs |-> r]

(***************************************************************************)
(* generate_code                                                           *)
(***************************************************************************)
ascii_uppercase ==
    <<"A", "B", "C", "D", "E", "F", "G", "H", "I", "J", "K", "L", "M",
      "N", "O", "P", "Q", "R", "S", "T", "U", "V", "W", "X", "Y", "Z">>
digits == <<"0", "1", "2", "3", "4", "5", "6", "7", "8", "9">>

\* rng.choices(population, k=k): k draws with replacement, [v, rs].
RECURSIVE choices(_, _, _)
choices(rs, population, k) ==
    IF k <= 0 THEN [v |-> <<>>, rs |-> rs]
    ELSE LET r == Advance(rs)
             rest == choices(r, population, k - 1)
         IN [v |-> <<population[Below(r, Len(population)) + 1]>> \o rest.v,
             rs |-> rest.rs]

\* A plausible slip: one character short.
generate_code_short(rs, length) ==
    choices(rs, ascii_uppercase \o digits, length - 1)

generate_code(rs, length) ==
    LET alphabet == ascii_uppercase \o digits
    IN choices(rs, alphabet, length)

(***************************************************************************)
(* _load_font                                                              *)
(***************************************************************************)
FontCandidates ==
    <<"consola.ttf", "DejaVuSansMono.ttf",
      "/usr/share/fonts/truetype/dejavu/DejaVuSansMono.ttf",
      "Menlo.ttf", "Courier New.ttf">>

DefaultFont == "load_default"

\* ImageFont.truetype(path, size) returns a font, rather than raising, when
\* the file loads and the size is positive.
Loads(fs, path, size) == path \in fs /\ size > 0

\* The for loop over candidates[i..]: the first that loads, else load_default().
RECURSIVE TryFonts(_, _, _, _)
TryFonts(fs, candidates, i, size) ==
    IF i > Len(candidates) THEN DefaultFont
    ELSE IF candidates[i] = "" THEN TryFonts(fs, candidates, i + 1, size)
    ELSE IF Loads(fs, candidates[i], size) THEN candidates[i]
    ELSE TryFonts(fs, candidates, i + 1, size)

\* A plausible slip: the preferred path is tried after the fixed list.
_load_font_last(fs, preferred, size) ==
    TryFonts(fs, FontCandidates \o (IF TruthyPath(preferred) THEN <<preferred[1]>> ELSE <<>>), 1, size)

_load_font(fs, preferred, size) ==
    LET candidates == (IF TruthyPath(preferred) THEN <<preferred[1]>> ELSE <<>>) \o FontCandidates
    IN TryFonts(fs, candidates, 1, size)

(***************************************************************************)
(* _text_to_ascii_lines                                                    *)
(***************************************************************************)
ASCII_CHARS == <<"$", "@", "B", "%", "8", "&", "W", "M", "#", " ">>

CharTable == ascii_uppercase \o digits
Ord(ch) == IF \E i \in 1..Len(CharTable) : CharTable[i] = ch
           THEN CHOOSE i \in 1..Len(CharTable) : CharTable[i] = ch
           ELSE 0

\* The luminances a rasterized glyph is made of: an abstraction of what
\* ImageDraw.text and Image.resize leave in an "L" image, a value of 0..255
\* that depends on the character, the font and the pixel.
InkLevels == <<0, 255, 128, 254, 1, 77>>
Lum(ch, font, k) ==
    InkLevels[((Ord(ch) + k + (IF font = DefaultFont THEN 1 ELSE 0)) % Len(InkLevels)) + 1]

\* img.resize((max(1, img.width // scale), max(1, img.height // scale))) of a
\* square of side font_size * 2: the side of the resized image.
GlyphSide(font_size, scale) == Max(1, (font_size * 2) \div scale)

\* img.getdata() of the glyph of ch: side * side luminances, row by row.
GlyphPixels(ch, font, font_size, scale) ==
    [k \in 1..(GlyphSide(font_size, scale) * GlyphSide(font_size, scale)) |-> Lum(ch, font, k)]

\* A plausible slip: the palette read light to dark.
AsciiIndexInverted(p, n) == ((255 - p) * (n - 1)) \div 255

\* p * (len(ascii_chars) - 1) // 255, Python's floor division.
AsciiIndex(p, n) == (p * (n - 1)) \div 255

\* s[i] of Python, i zero-based, a negative i counting from the end:
\* whether it raises IndexError.
IndexRaises(s, i) == i >= Len(s) \/ i < 0 - Len(s)
PyIndex(s, i) == IF i >= 0 THEN s[i + 1] ELSE s[Len(s) + i + 1]

\* "".join(ascii_chars[p * (len(ascii_chars) - 1) // 255] for p in pixels)
MapRaises(pixels, ascii_chars) ==
    \E k \in 1..Len(pixels) : IndexRaises(ascii_chars, AsciiIndex(pixels[k], Len(ascii_chars)))
MapPixels(pixels, ascii_chars) ==
    [k \in 1..Len(pixels) |-> PyIndex(ascii_chars, AsciiIndex(pixels[k], Len(ascii_chars)))]

\* [ascii_str[i : i + width] for i in range(0, len(ascii_str), width)]
SliceRows(ascii_str, width) ==
    [r \in 1..((Len(ascii_str) + width - 1) \div width) |->
        SubSeq(ascii_str, (r - 1) * width + 1, IF r * width <= Len(ascii_str) THEN r * width ELSE Len(ascii_str))]

\* text.replace(" ", "")
RECURSIVE StripSpaces(_)
StripSpaces(text) ==
    IF text = <<>> THEN <<>>
    ELSE (IF Head(text) = " " THEN <<>> ELSE <<Head(text)>>) \o StripSpaces(Tail(text))

\* "   ".join(b[r] for b in blocks[i..])
RECURSIVE JoinRow(_, _, _)
JoinRow(blocks, i, r) ==
    IF i > Len(blocks) THEN <<>>
    ELSE IF i = Len(blocks) THEN blocks[i][r]
    ELSE blocks[i][r] \o <<" ", " ", " ">> \o JoinRow(blocks, i + 1, r)

\* The outcome of _text_to_ascii_lines: err is "none" or the exception that
\* ends the call, lines the rows returned, mapped the number of glyphs whose
\* pixels reached the palette lookup, font the font the glyphs were drawn in.
TextOutcome(e, ls, m, f) == [err |-> e, lines |-> ls, mapped |-> m, font |-> f]

\* The for loop over the characters text[i..]: the blocks so far, or IndexError.
RECURSIVE GlyphLoop(_, _, _, _, _, _, _)
GlyphLoop(chars, i, blocks, font, font_size, scale, ascii_chars) ==
    IF i > Len(chars)
    THEN IF blocks = <<>>
         THEN TextOutcome("IndexError", <<>>, Len(blocks), font)
         ELSE TextOutcome("none",
                          [r \in 1..Len(blocks[1]) |-> JoinRow(blocks, 1, r)],
                          Len(blocks), font)
    ELSE LET pixels == GlyphPixels(chars[i], font, font_size, scale)
         IN IF MapRaises(pixels, ascii_chars)
            THEN TextOutcome("IndexError", <<>>, Len(blocks) + 1, font)
            ELSE GlyphLoop(chars, i + 1,
                           Append(blocks, SliceRows(MapPixels(pixels, ascii_chars),
                                                    GlyphSide(font_size, scale))),
                           font, font_size, scale, ascii_chars)

_text_to_ascii_lines(fs, text, font_path, font_size, scale, ascii_chars) ==
    IF text = <<>> THEN TextOutcome("none", <<>>, 0, DefaultFont)
    ELSE LET font == _load_font(fs, font_path, font_size)
         IN GlyphLoop(StripSpaces(text), 1, <<>>, font, font_size, scale, ascii_chars)

(***************************************************************************)
(* make_image.  An image is [mode, size, px]: px is the sequence of        *)
(* drawing operations applied to a uniform background, in order, so two    *)
(* images are equal when they were drawn alike.  A frame holds the locals  *)
(* of one make_image call; log is the sequence of the stages executed.    *)
(***************************************************************************)
Op(k, a, s, sub) == [k |-> k, a |-> a, s |-> s, sub |-> sub]
NewImage(mode, size) == [mode |-> mode, size |-> size, px |-> <<>>]
Paint(img, op) == [img EXCEPT !.px = Append(@, op)]

\* img.filter(ImageFilter.GaussianBlur(radius)): a uniform image stays as it is.
GaussianBlur(img, radius) ==
    IF img.px = <<>> THEN img ELSE Paint(img, Op("blur", <<radius>>, "", <<>>))

\* Image.alpha_composite(dst, src): a fully transparent src changes nothing.
alpha_composite(dst, src) ==
    IF src.px = <<>> THEN dst ELSE Paint(dst, Op("composite", <<>>, "", src.px))

RECURSIVE MaxLineLen(_)
MaxLineLen(ls) ==
    IF ls = <<>> THEN 0 ELSE Max(Len(Head(ls)), MaxLineLen(Tail(ls)))

Logged(f, stage) == [f EXCEPT !.log = Append(@, stage)]

\* The frame on entry to make_image, before line 179.
Frame(ascii_lines, params, rs) ==
    [lines |-> ascii_lines, params |-> params, rs |-> rs,
     char_w |-> 0, char_h |-> 0, width |-> 0, height |-> 0,
     base |-> NewImage("none", <<0, 0>>), shape |-> NewImage("none", <<0, 0>>),
     font |-> "", log |-> <<>>, stage |-> "entry"]

\* Lines 179-190: the empty canvas returns the 2x2 image; otherwise the
\* sizes, the base image and the font.
Setup(fs, f) ==
    IF f.lines = <<>>
    THEN [f EXCEPT !.base = NewImage("RGB", <<2, 2>>), !.width = 2, !.height = 2]
    ELSE LET char_w == f.params.font_size \div 2 + f.params.spacing
             char_h == f.params.font_size + 2
             width == char_w * MaxLineLen(f.lines)
             height == char_h * Len(f.lines)
         IN [f EXCEPT !.char_w = char_w, !.char_h = char_h,
                      !.width = width, !.height = height,
                      !.base = NewImage("RGBA", <<width, height>>),
                      !.font = _load_font(fs, f.params.font_path, f.params.font_size)]

\* Lines 193-197: the character at row r, column c (zero-based) and those after it.
RECURSIVE TextLoop(_, _, _)
TextLoop(f, r, c) ==
    IF r >= Len(f.lines) THEN f
    ELSE IF c >= Len(f.lines[r + 1]) THEN TextLoop(f, r + 1, 0)
    ELSE LET dx == randint(f.rs, 0 - f.params.jitter, f.params.jitter)
             dy == randint(dx.rs, 0 - f.params.jitter, f.params.jitter)
             x == c * f.char_w + dx.v
             y == r * f.char_h + dy.v
         IN TextLoop([f EXCEPT !.rs = dy.rs,
                               !.base = Paint(@, Op("text", <<x, y>>, f.lines[r + 1][c + 1], <<f.font>>))],
                     r, c + 1)

DrawText(f) == Logged(TextLoop(f, 0, 0), "text")

\* Lines 200-205: the n lines still to draw.
RECURSIVE LineLoop(_, _)
LineLoop(f, n) ==
    IF n <= 0 THEN f
    ELSE LET x1 == randint(f.rs, 0, f.width)
             y1 == randint(x1.rs, 0, f.height)
             x2 == randint(y1.rs, 0, f.width)
             y2 == randint(x2.rs, 0, f.height)
             g == randint(y2.rs, 100, 180)
             t == randint(g.rs, 1, 2)
         IN LineLoop([f EXCEPT !.rs = t.rs,
                               !.base = Paint(@, Op("line", <<x1.v, y1.v, x2.v, y2.v, g.v, t.v>>, "", <<>>))],
                     n - 1)

DrawLines(f) == Logged(LineLoop(f, f.params.noise_lines), "lines")

\* Lines 210-217: the n blurred shapes still to draw on the overlay.
RECURSIVE ShapeLoop(_, _)
ShapeLoop(f, n) ==
    IF n <= 0 THEN f
    ELSE LET x1 == randint(f.rs, 0, Max(0, f.width - 30))
             y1 == randint(x1.rs, 0, Max(0, f.height - 30))
             w == randint(y1.rs, 15, 50)
             h == randint(w.rs, 15, 50)
             g == randint(h.rs, 90, 160)
             a == randint(g.rs, 60, 120)
             u == Advance(a.rs)
             kind == IF 2 * u.st < RngMod THEN "ellipse" ELSE "rectangle"
         IN ShapeLoop([f EXCEPT !.rs = u,
                                !.shape = Paint(@, Op(kind, <<x1.v, y1.v, x1.v + w.v, y1.v + h.v, g.v, a.v>>, "", <<>>))],
                      n - 1)

\* Lines 208-217: the transparent overlay and the blurred shapes.
DrawShapes(f) ==
    Logged(ShapeLoop([f EXCEPT !.shape = NewImage("RGBA", <<f.width, f.height>>)],
                     f.params.blur_shapes),
           "shapes")

ExtraKinds == <<"arc", "chord", "triangle", "circle">>

\* Lines 219-235: the n extra shapes still to draw on the same overlay.
RECURSIVE ExtraLoop(_, _)
ExtraLoop(f, n) ==
    IF n <= 0 THEN f
    ELSE LET x1 == randint(f.rs, 0, Max(0, f.width - 50))
             y1 == randint(x1.rs, 0, Max(0, f.height - 50))
             w == randint(y1.rs, 10, 50)
             h == randint(w.rs, 10, 50)
             x2 == x1.v + w.v
             y2 == y1.v + h.v
             g == randint(h.rs, 60, 180)
             a == randint(g.rs, 40, 100)
             u == Advance(a.rs)
             choice == ExtraKinds[Below(u, Len(ExtraKinds)) + 1]
             s == randint(u, 0, 360)
             e == randint(s.rs, 0, 360)
             r == (x2 - x1.v) \div 2
             op == CASE choice = "arc" -> Op("arc", <<x1.v, y1.v, x2, y2, s.v, e.v, g.v>>, "", <<>>)
                     [] choice = "chord" -> Op("chord", <<x1.v, y1.v, x2, y2, s.v, e.v, g.v, a.v>>, "", <<>>)
                     [] choice = "triangle" ->
                            Op("polygon", <<x1.v, y1.v, x2, y1.v, (x1.v + x2) \div 2, y2, g.v, a.v>>, "", <<>>)
                     [] OTHER -> Op("ellipse", <<x1.v, y1.v, x1.v + r * 2, y1.v + r * 2, g.v, a.v>>, "", <<>>)
         IN ExtraLoop([f EXCEPT !.rs = IF choice \in {"arc", "chord"} THEN e.rs ELSE u,
                                !.shape = Paint(@, op)],
                      n - 1)

DrawExtra(f) == Logged(ExtraLoop(f, f.params.extra_noise_shapes), "extra")

\* Lines 237-238.
ShapeBlur(f) ==
    IF f.params.shape_blur_radius > 0
    THEN Logged([f EXCEPT !.shape = GaussianBlur(@, f.params.shape_blur_radius)], "shape_blur")
    ELSE f

\* Line 239.
Composite(f) == Logged([f EXCEPT !.base = alpha_composite(@, f.shape)], "composite")

\* Lines 244-247: the n speckles still to set.
RECURSIVE SpeckleLoop(_, _)
SpeckleLoop(f, n) ==
    IF n <= 0 THEN f
    ELSE LET x == randint(f.rs, 0, f.width - 1)
             y == randint(x.rs, 0, f.height - 1)
             v == randint(y.rs, 0, 255)
         IN SpeckleLoop([f EXCEPT !.rs = v.rs,
                                  !.base = Paint(@, Op("pixel", <<x.v, y.v, v.v>>, "", <<>>))],
                        n - 1)

\* A plausible slip: one speckle is always set.
SpeckleAtLeastOne(f) ==
    Logged(SpeckleLoop(f, Max(1, (f.width * f.height * f.params.pixel_noise_density) \div 100)), "speckle")

\* Lines 242-247: int(total * pixel_noise_density) speckles.
Speckle(f) ==
    LET total == f.width * f.height
    IN Logged(SpeckleLoop(f, (total * f.params.pixel_noise_density) \div 100), "speckle")

\* Lines 249-250.
FinalBlur(f) ==
    IF f.params.apply_blur /\ f.params.gaussian_blur_radius > 0
    THEN Logged([f EXCEPT !.base = GaussianBlur(@, f.params.gaussian_blur_radius)], "final_blur")
    ELSE f

\* Line 252: base.convert("RGB").
Flatten(f) == Logged([f EXCEPT !.base = [@ EXCEPT !.mode = "RGB"]], "flatten")

\* A plausible slip: the overlay composited before it is blurred.
StageAfterCompositeFirst(stage, empty) ==
    CASE stage = "entry" -> IF empty THEN "done" ELSE "text"
      [] stage = "text" -> "lines"
      [] stage = "lines" -> "shapes"
      [] stage = "shapes" -> "extra"
      [] stage = "extra" -> "composite"
      [] stage = "composite" -> "shape_blur"
      [] stage = "shape_blur" -> "speckle"
      [] stage = "speckle" -> "final_blur"
      [] stage = "final_blur" -> "flatten"
      [] OTHER -> "done"

\* The statement that follows a stage of make_image, in the order of lines
\* 179-252; empty: the canvas is empty and line 181 returns.
StageAfter(stage, empty) ==
    CASE stage = "entry" -> IF empty THEN "done" ELSE "text"
      [] stage = "text" -> "lines"
      [] stage = "lines" -> "shapes"
      [] stage = "shapes" -> "extra"
      [] stage = "extra" -> "shape_blur"
      [] stage = "shape_blur" -> "composite"
      [] stage = "composite" -> "speckle"
      [] stage = "speckle" -> "final_blur"
      [] stage = "final_blur" -> "flatten"
      [] OTHER -> "done"

\* The stage the frame stands at, executed.
RunStage(fs, f) ==
    LET g == CASE f.stage = "entry" -> Setup(fs, f)
               [] f.stage = "text" -> DrawText(f)
               [] f.stage = "lines" -> DrawLines(f)
               [] f.stage = "shapes" -> DrawShapes(f)
               [] f.stage = "extra" -> DrawExtra(f)
               [] f.stage = "shape_blur" -> ShapeBlur(f)
               [] f.stage = "composite" -> Composite(f)
               [] f.stage = "speckle" -> Speckle(f)
               [] f.stage = "final_blur" -> FinalBlur(f)
               [] f.stage = "flatten" -> Flatten(f)
               [] OTHER -> f
    IN [g EXCEPT !.stage = StageAfter(f.stage, f.lines = <<>>)]

RECURSIVE RunStages(_, _)
RunStages(fs, f) == IF f.stage = "done" THEN f ELSE RunStages(fs, RunStage(fs, f))

\* The outcome of make_image: the image returned, the stream after the call
\* and the stages executed.
ImageOutcome(img, rs, log) == [img |-> img, rs |-> rs, log |-> log]

make_image(fs, ascii_lines, params, rs) ==
    LET f == RunStages(fs, Frame(ascii_lines, params, rs))
    IN ImageOutcome(f.base, f.rs, f.log)

(***************************************************************************)
(* The values the specifications below leave alone.                        *)
(***************************************************************************)
InstalledFonts == {"DejaVuSansMono.ttf"}

NoCalls ==
    /\ globalRng = 0
    /\ cfg = <<>> /\ pc = <<>> /\ rng = <<>> /\ ownRng = <<>>
    /\ code = <<>> /\ ascii = <<>> /\ made = <<>> /\ drawn = <<>>
    /\ runs = <<>> /\ history = {}

NoFrame == [stage |-> "off"]
NoFn == [op |-> "off"]

(***************************************************************************)
(* SpecCode: generate_code applied to every length and generator state.    *)
(***************************************************************************)
InitCode ==
    /\ NoCalls /\ fonts = InstalledFonts /\ fr = NoFrame
    /\ fn \in {[op |-> "generate_code", length |-> n, st |-> s, done |-> FALSE, ret |-> <<>>, draws |-> 0] :
                  n \in 0..MaxCodeLen, s \in 0..(RngMod - 1)}

CallGenerateCode ==
    /\ fn.op = "generate_code" /\ ~fn.done
    /\ LET r == generate_code(Stream(fn.st), fn.length)
       IN fn' = [fn EXCEPT !.done = TRUE, !.ret = r.v, !.draws = Len(r.rs.out)]
    /\ UNCHANGED <<callVars, fr>>

NextCode == CallGenerateCode
SpecCode == InitCode /\ [][NextCode]_vars

(***************************************************************************)
(* SpecFont: _load_font applied to every preferred path, over every set    *)
(* of font files that load.                                                *)
(***************************************************************************)
FontFiles == {FontCandidates[i] : i \in 1..Len(FontCandidates)} \cup {"my.ttf"}
PreferredPaths == {None, Some(""), Some("my.ttf"), Some("Menlo.ttf")}

InitFont ==
    /\ NoCalls /\ fr = NoFrame
    /\ fonts \in SUBSET FontFiles
    /\ fn \in {[op |-> "_load_font", preferred |-> q, size |-> z, done |-> FALSE, ret |-> ""] :
                  q \in PreferredPaths, z \in {0, 9, 40}}

CallLoadFont ==
    /\ fn.op = "_load_font" /\ ~fn.done
    /\ fn' = [fn EXCEPT !.done = TRUE, !.ret = _load_font(fonts, fn.preferred, fn.size)]
    /\ UNCHANGED <<callVars, fr>>

NextFont == CallLoadFont
SpecFont == InitFont /\ [][NextFont]_vars

(***************************************************************************)
(* SpecMap: line 169 applied to a uniform grid of every luminance in turn, *)
(* for palettes of 2..MaxPalette characters.                               *)
(***************************************************************************)
Palette(n) == [i \in 1..n |-> ASCII_CHARS[((i - 1) % Len(ASCII_CHARS)) + 1]]
Grid(p) == <<p, p, p, p>>

Mapped(n, p, prev) ==
    [op |-> "map", n |-> n, p |-> p, prev |-> prev,
     idx |-> AsciiIndex(p, n),
     raised |-> MapRaises(Grid(p), Palette(n)),
     str |-> IF MapRaises(Grid(p), Palette(n)) THEN <<>> ELSE MapPixels(Grid(p), Palette(n))]

InitMap ==
    /\ NoCalls /\ fonts = InstalledFonts /\ fr = NoFrame
    /\ fn \in {Mapped(n, 0, 0) : n \in 2..MaxPalette}

MapNextLuminance ==
    /\ fn.op = "map" /\ fn.p < 255
    /\ fn' = Mapped(fn.n, fn.p + 1, fn.idx)
    /\ UNCHANGED <<callVars, fr>>

NextMap == MapNextLuminance
SpecMap == InitMap /\ [][NextMap]_vars

(***************************************************************************)
(* SpecRender: one make_image call, stage by stage.                        *)
(***************************************************************************)
RenderParams(font_path, font_size, spacing, noise_lines, blur_shapes, apply_blur, extra_noise_shapes, pixel_noise_density, jitter, gaussian_blur_radius, shape_blur_radius) ==
    [font_path |-> font_path, font_size |-> font_size, spacing |-> spacing,
     noise_lines |-> noise_lines, blur_shapes |-> blur_shapes, apply_blur |-> apply_blur,
     extra_noise_shapes |-> extra_noise_shapes, pixel_noise_density |-> pixel_noise_density,
     jitter |-> jitter, gaussian_blur_radius |-> gaussian_blur_radius,
     shape_blur_radius |-> shape_blur_radius]

RenderParamSets ==
    {RenderParams(None, 2, 1, nl, bs, ab, en, pd, j, gr, sr) :
        nl \in 0..MaxNoise, bs \in 0..MaxNoise, en \in 0..MaxNoise,
        ab \in BOOLEAN, pd \in {0, 25}, j \in {0, 1}, gr \in {0, 11}, sr \in {0, 20}}

Canvases == {<<>>, << <<"#">> >>, << <<"#", " ">>, <<" ", "$">> >>}

InitRender ==
    /\ NoCalls /\ fonts = InstalledFonts /\ fn = NoFn
    /\ fr \in {Frame(ls, q, Stream(Seeded(sd))) :
                  ls \in Canvases, q \in RenderParamSets, sd \in 0..MaxSeed}

EnterMakeImage ==
    /\ fr.stage = "entry"
    /\ fr' = RunStage(fonts, fr)
    /\ UNCHANGED <<callVars, fn>>

StageText ==
    /\ fr.stage = "text"
    /\ fr' = RunStage(fonts, fr)
    /\ UNCHANGED <<callVars, fn>>

StageLines ==
    /\ fr.stage = "lines"
    /\ fr' = RunStage(fonts, fr)
    /\ UNCHANGED <<callVars, fn>>

StageShapes ==
    /\ fr.stage = "shapes"
    /\ fr' = RunStage(fonts, fr)
    /\ UNCHANGED <<callVars, fn>>

StageExtra ==
    /\ fr.stage = "extra"
    /\ fr' = RunStage(fonts, fr)
    /\ UNCHANGED <<callVars, fn>>

StageShapeBlur ==
    /\ fr.stage = "shape_blur"
    /\ fr' = RunStage(fonts, fr)
    /\ UNCHANGED <<callVars, fn>>

StageComposite ==
    /\ fr.stage = "composite"
    /\ fr' = RunStage(fonts, fr)
    /\ UNCHANGED <<callVars, fn>>

StageSpeckle ==
    /\ fr.stage = "speckle"
    /\ fr' = RunStage(fonts, fr)
    /\ UNCHANGED <<callVars, fn>>

StageFinalBlur ==
    /\ fr.stage = "final_blur"
    /\ fr' = RunStage(fonts, fr)
    /\ UNCHANGED <<callVars, fn>>

StageFlatten ==
    /\ fr.stage = "flatten"
    /\ fr' = RunStage(fonts, fr)
    /\ UNCHANGED <<callVars, fn>>

NextRender ==
    \/ EnterMakeImage \/ StageText \/ StageLines \/ StageShapes \/ StageExtra
    \/ StageShapeBlur \/ StageComposite \/ StageSpeckle \/ StageFinalBlur \/ StageFlatten
SpecRender == InitRender /\ [][NextRender]_vars

(***************************************************************************)
(* generate_image_from_cfg, as calls that run side by side.  A slot makes  *)
(* up to MaxRuns calls, one after the other, each with the slot's          *)
(* configuration.                                                          *)
(***************************************************************************)
AppConfig(code_length, random_seed, fixed_code, ascii_chars, text_to_ascii, render) ==
    [code_length |-> code_length, random_seed |-> random_seed, fixed_code |-> fixed_code,
     ascii_chars |-> ascii_chars, text_to_ascii |-> text_to_ascii, render |-> render]

TextToAsciiParams(font_path, font_size, scale) ==
    [font_path |-> font_path, font_size |-> font_size, scale |-> scale]

\* A plausible slip: the seed tested for truth, so that seed 0 counts as no seed.
BindRngTruthy(random_seed) ==
    IF random_seed # None /\ random_seed[1] # 0 THEN "Random" ELSE "random"

\* Line 264: random.Random(cfg.random_seed) if cfg.random_seed is not None else random.
BindRng(random_seed) ==
    IF random_seed # None THEN "Random" ELSE "random"

\* A plausible slip: the callee ignores the rng it is handed.
RngOrRandomIgnored(h) == "random"

\* Lines 137 and 178: rng = rng or random.  A Random instance and the module
\* are both truthy.
RngOrRandom(h) == IF h = "None" THEN "random" ELSE h

\* The state of the generator behind handle h in call c.
StateOf(c, h) == IF h = "Random" THEN ownRng[c][1] ELSE globalRng

NoDraws == [own |-> <<>>, glob |-> <<>>, code |-> 0]
Took(d, h, out) ==
    IF h = "Random" THEN [d EXCEPT !.own = @ \o out] ELSE [d EXCEPT !.glob = @ \o out]

NoText == TextOutcome("none", <<>>, 0, "")
NoImage == [img |-> NewImage("none", <<0, 0>>), log |-> <<>>]

Begin(c) ==
    /\ pc[c] = "start" /\ runs[c] < MaxRuns
    /\ rng' = [rng EXCEPT ![c] = BindRng(cfg[c].random_seed)]
    /\ ownRng' = [ownRng EXCEPT ![c] = IF BindRng(cfg[c].random_seed) = "Random"
                                        THEN Some(Seeded(cfg[c].random_seed[1]))
                                        ELSE None]
    /\ code' = [code EXCEPT ![c] = <<>>]
    /\ ascii' = [ascii EXCEPT ![c] = NoText]
    /\ made' = [made EXCEPT ![c] = NoImage]
    /\ drawn' = [drawn EXCEPT ![c] = NoDraws]
    /\ pc' = [pc EXCEPT ![c] = "code"]
    /\ UNCHANGED <<fonts, globalRng, cfg, runs, history, fr, fn>>

\* Line 265: code = (cfg.fixed_code or generate_code(cfg.code_length, rng=rng)).
GenCode(c) ==
    /\ pc[c] = "code"
    /\ \E h \in {RngOrRandom(rng[c])} :
       \E r \in {IF Truthy(cfg[c].fixed_code)
                  THEN [v |-> cfg[c].fixed_code[1], rs |-> Stream(StateOf(c, h))]
                  ELSE generate_code(Stream(StateOf(c, h)), cfg[c].code_length)} :
          /\ code' = [code EXCEPT ![c] = r.v]
          /\ ownRng' = IF h = "Random" THEN [ownRng EXCEPT ![c] = Some(r.rs.st)] ELSE ownRng
          /\ globalRng' = IF h = "Random" THEN globalRng ELSE r.rs.st
          /\ drawn' = [drawn EXCEPT ![c] = [Took(@, h, r.rs.out) EXCEPT !.code = Len(r.rs.out)]]
    /\ pc' = [pc EXCEPT ![c] = "ascii"]
    /\ UNCHANGED <<fonts, cfg, rng, ascii, made, runs, history, fr, fn>>

\* Lines 266-272.
TextToAscii(c) ==
    /\ pc[c] = "ascii"
    /\ \E r \in {_text_to_ascii_lines(fonts, code[c], cfg[c].text_to_ascii.font_path,
                                        cfg[c].text_to_ascii.font_size, cfg[c].text_to_ascii.scale,
                                        cfg[c].ascii_chars)} :
          /\ ascii' = [ascii EXCEPT ![c] = r]
          /\ pc' = [pc EXCEPT ![c] = IF r.err = "none" THEN "image" ELSE "raised"]
    /\ UNCHANGED <<fonts, globalRng, cfg, rng, ownRng, code, made, drawn, runs, history, fr, fn>>

\* Line 273: img = make_image(ascii_lines, params=cfg.render, rng=rng).
MakeImage(c) ==
    /\ pc[c] = "image"
    /\ \E h \in {RngOrRandom(rng[c])} :
       \E r \in {make_image(fonts, ascii[c].lines, cfg[c].render, Stream(StateOf(c, h)))} :
          /\ made' = [made EXCEPT ![c] = [img |-> r.img, log |-> r.log]]
          /\ ownRng' = IF h = "Random" THEN [ownRng EXCEPT ![c] = Some(r.rs.st)] ELSE ownRng
          /\ globalRng' = IF h = "Random" THEN globalRng ELSE r.rs.st
          /\ drawn' = [drawn EXCEPT ![c] = Took(@, h, r.rs.out)]
    /\ pc' = [pc EXCEPT ![c] = "return"]
    /\ UNCHANGED <<fonts, cfg, rng, code, ascii, runs, history, fr, fn>>

\* What a completed call leaves: its configuration, the code and the image it
\* returned or the exception it raised, the glyphs mapped and the draws taken.
Completed(c, err) ==
    [cfg |-> cfg[c], code |-> code[c], img |-> made[c].img, err |-> err,
     mapped |-> ascii[c].mapped, draws |-> drawn[c]]

\* Line 274: return img, code.
Return(c) ==
    /\ pc[c] = "return"
    /\ history' = history \cup {Completed(c, "none")}
    /\ runs' = [runs EXCEPT ![c] = @ + 1]
    /\ pc' = [pc EXCEPT ![c] = "start"]
    /\ UNCHANGED <<fonts, globalRng, cfg, rng, ownRng, code, ascii, made, drawn, fr, fn>>

\* The exception raised in _text_to_ascii_lines leaves generate_image_from_cfg.
Raise(c) ==
    /\ pc[c] = "raised"
    /\ history' = history \cup {Completed(c, ascii[c].err)}
    /\ runs' = [runs EXCEPT ![c] = @ + 1]
    /\ pc' = [pc EXCEPT ![c] = "start"]
    /\ UNCHANGED <<fonts, globalRng, cfg, rng, ownRng, code, ascii, made, drawn, fr, fn>>

Next ==
    \/ \E c \in DOMAIN pc : Begin(c)
    \/ \E c \in DOMAIN pc : GenCode(c)
    \/ \E c \in DOMAIN pc : TextToAscii(c)
    \/ \E c \in DOMAIN pc : MakeImage(c)
    \/ \E c \in DOMAIN pc : Return(c)
    \/ \E c \in DOMAIN pc : Raise(c)

\* The state before any call, for the configurations cs, one per slot.
InitCalls(cs) ==
    /\ fonts = InstalledFonts
    /\ cfg = cs
    /\ pc = [c \in DOMAIN cs |-> "start"]
    /\ rng = [c \in DOMAIN cs |-> "unbound"]
    /\ ownRng = [c \in DOMAIN cs |-> None]
    /\ code = [c \in DOMAIN cs |-> <<>>]
    /\ ascii = [c \in DOMAIN cs |-> NoText]
    /\ made = [c \in DOMAIN cs |-> NoImage]
    /\ drawn = [c \in DOMAIN cs |-> NoDraws]
    /\ runs = [c \in DOMAIN cs |-> 0]
    /\ history = {}
    /\ fr = NoFrame /\ fn = NoFn

Seeds == {None} \cup {Some(sd) : sd \in 0..MaxSeed}
\* The states the process-wide generator may be in when the first call starts.
GlobalStates == {5, 18}

NoisyRender == RenderParams(None, 2, 1, 1, 1, TRUE, 1, 10, 1, 11, 20)
QuietRender == RenderParams(None, 2, 1, 0, 0, FALSE, 0, 0, 1, 11, 20)

(***************************************************************************)
(* Spec: two slots side by side, the first over every seed, fixed code and *)
(* code length, the second a seeded or unseeded call beside it.            *)
(***************************************************************************)
ObservedConfigs ==
    {AppConfig(n, sd, fc, ASCII_CHARS, TextToAsciiParams(None, 1, 2), NoisyRender) :
        n \in 1..MaxCodeLen, sd \in Seeds,
        fc \in {None, Some(<<>>), Some(<<"A">>), Some(<<" ">>)}}

OtherConfigs ==
    {AppConfig(1, sd, None, ASCII_CHARS, TextToAsciiParams(None, 1, 2), NoisyRender) :
        sd \in {None, Some(0)}}

Init ==
    /\ globalRng \in GlobalStates
    /\ \E a \in ObservedConfigs, b \in OtherConfigs : InitCalls(<<a, b>>)

Spec == Init /\ [][Next]_vars

(***************************************************************************)
(* SpecAscii: one slot, over degenerate codes and palettes.                *)
(***************************************************************************)
AsciiConfigs ==
    {AppConfig(n, sd, fc, pal, TextToAsciiParams(None, 1, sc), QuietRender) :
        n \in 0..MaxCodeLen, sd \in {None, Some(0)},
        fc \in {None, Some(<<>>), Some(<<" ">>), Some(<<" ", " ">>), Some(<<"A">>),
                Some(<<"A", " ", "7">>)},
        pal \in {<<>>, <<"#">>, <<"#", " ">>, ASCII_CHARS},
        sc \in {1, 2}}

InitAscii ==
    /\ globalRng \in GlobalStates
    /\ \E a \in AsciiConfigs : InitCalls(<<a>>)

SpecAscii == InitAscii /\ [][Next]_vars

(***************************************************************************)
(* Properties of generate_code.                                            *)
(***************************************************************************)
Alphabet36 ==
    {"A", "B", "C", "D", "E", "F", "G", "H", "I", "J", "K", "L", "M",
     "N", "O", "P", "Q", "R", "S", "T", "U", "V", "W", "X", "Y", "Z",
     "0", "1", "2", "3", "4", "5", "6", "7", "8", "9"}

\* C1: for every length >= 1 and every generator state, generate_code(length)
\* returns exactly `length` characters, each one of the 36 characters A-Z, 0-9.
C1_CodeLengthAndAlphabet ==
    (fn.op = "generate_code" /\ fn.done /\ fn.length >= 1) =>
        /\ Len(fn.ret) = fn.length
        /\ \A i \in 1..Len(fn.ret) : fn.ret[i] \in Alphabet36
        /\ Cardinality(Alphabet36) = 36

\* A code of the greatest length has been generated and starts with the last character of the alphabet.
C1_Witness ==
    /\ fn.op = "generate_code" /\ fn.done
    /\ fn.length = MaxCodeLen /\ Len(fn.ret) = MaxCodeLen
    /\ fn.ret[1] = "9"

(***************************************************************************)
(* Properties of the luminance-to-character mapping.                       *)
(***************************************************************************)
\* C5: for every palette of n >= 2 characters and every luminance p in 0..255
\* the index p*(n-1) div 255 lies in 0..n-1 (the lookup never raises), does not
\* decrease as p grows, is 0 at p = 0 and n-1 at p = 255; a pure-black grid maps
\* to the first (darkest) palette character only and a pure-white grid to the
\* last (lightest) only.
C5_MapperIndex ==
    fn.op = "map" =>
        /\ fn.idx \in 0..(fn.n - 1)
        /\ ~fn.raised
        /\ fn.prev <= fn.idx
        /\ fn.p = 0 => fn.idx = 0 /\ \A k \in 1..Len(fn.str) : fn.str[k] = Palette(fn.n)[1]
        /\ fn.p = 255 => fn.idx = fn.n - 1 /\ \A k \in 1..Len(fn.str) : fn.str[k] = Palette(fn.n)[fn.n]
        /\ Len(fn.str) = Len(Grid(fn.p))
        /\ \A k \in 1..Len(fn.str) : fn.str[k] = Palette(fn.n)[fn.idx + 1]

\* The two-character palette has been scanned up to pure white, which maps to its second character.
C5_Witness ==
    /\ fn.op = "map" /\ fn.n = 2 /\ fn.p = 255
    /\ fn.str = <<"@", "@", "@", "@">>

(***************************************************************************)
(* Properties of _load_font.                                               *)
(***************************************************************************)
\* The candidates in the order the claim gives: the preferred path, when one
\* is given, then the fixed list.
ClaimedOrder(preferred) ==
    (IF preferred = None \/ preferred = Some("") THEN <<>> ELSE preferred) \o
    <<"consola.ttf", "DejaVuSansMono.ttf",
      "/usr/share/fonts/truetype/dejavu/DejaVuSansMono.ttf",
      "Menlo.ttf", "Courier New.ttf">>

\* C6: for any preferred path (none included) and any set of loadable font
\* files the resolver returns a font: the first candidate that loads, the
\* preferred path tried first and then the fixed list in its order, and the
\* built-in fallback font exactly when no candidate loads.
C6_FontResolverOrdered ==
    (fn.op = "_load_font" /\ fn.done) =>
        LET order == ClaimedOrder(fn.preferred)
            loads(i) == order[i] \in fonts /\ fn.size > 0
        IN IF \E i \in 1..Len(order) : loads(i)
           THEN \E i \in 1..Len(order) :
                    /\ loads(i)
                    /\ \A j \in 1..(i - 1) : ~loads(j)
                    /\ fn.ret = order[i]
           ELSE fn.ret = DefaultFont

\* The preferred file loads and is returned although the first file of the fixed list loads too.
C6_Witness ==
    /\ fn.op = "_load_font" /\ fn.done
    /\ fn.preferred = Some("my.ttf") /\ fn.ret = "my.ttf"
    /\ "consola.ttf" \in fonts

(***************************************************************************)
(* Properties of make_image.                                               *)
(***************************************************************************)
IsPrefix(a, b) == Len(a) <= Len(b) /\ SubSeq(b, 1, Len(a)) = a

\* The stages as the claim lists them: the overlay blur always among them.
ClaimedStages(q) ==
    <<"text", "lines", "shapes", "extra", "shape_blur", "composite", "speckle">> \o
    (IF q.apply_blur /\ q.gaussian_blur_radius > 0 THEN <<"final_blur">> ELSE <<>>) \o
    <<"flatten">>

\* The stages with the overlay blur only when shape_blur_radius > 0.
GuardedStages(q) ==
    <<"text", "lines", "shapes", "extra">> \o
    (IF q.shape_blur_radius > 0 THEN <<"shape_blur">> ELSE <<>>) \o
    <<"composite", "speckle">> \o
    (IF q.apply_blur /\ q.gaussian_blur_radius > 0 THEN <<"final_blur">> ELSE <<>>) \o
    <<"flatten">>

\* The place of a drawing operation in the base image's layers.
LayerRank(k) ==
    CASE k = "text" -> 1 [] k = "line" -> 2 [] k = "composite" -> 3
      [] k = "pixel" -> 4 [] k = "blur" -> 5 [] OTHER -> 0

LayersInOrder(img) ==
    /\ \A i \in 1..Len(img.px) : LayerRank(img.px[i].k) > 0
    /\ \A i \in 1..(Len(img.px) - 1) : LayerRank(img.px[i].k) <= LayerRank(img.px[i + 1].k)

\* C8 as claimed: in every render of a non-empty canvas the stages run exactly
\* once each in the order text, lines, shapes, extra shapes, overlay blur,
\* composite, speckle, final blur (if enabled and radius > 0), flatten.
C8_AllStagesAlways ==
    (fr.stage # "off" /\ fr.lines # <<>>) =>
        /\ IsPrefix(fr.log, ClaimedStages(fr.params))
        /\ fr.stage = "done" => fr.log = ClaimedStages(fr.params)

\* C8 as amended: in every render of a non-empty canvas the stages run at most
\* once each in the order text, lines, shapes, extra shapes, overlay blur (only
\* if shape_blur_radius > 0), composite, speckle, final blur (only if enabled
\* and radius > 0), flatten, all of them by the time the call returns; the
\* overlay is blurred before it is composited, and the speckle lies over the
\* composited overlay and under the final blur.
C8_StageOrder ==
    (fr.stage # "off" /\ fr.lines # <<>>) =>
        /\ IsPrefix(fr.log, GuardedStages(fr.params))
        /\ fr.stage = "done" => fr.log = GuardedStages(fr.params)
        /\ LayersInOrder(fr.base)
        /\ \A i \in 1..Len(fr.base.px) :
              fr.base.px[i].k = "composite" =>
                  \A j \in 1..(Len(fr.base.px[i].sub) - 1) : fr.base.px[i].sub[j].k # "blur"

\* A render with every layer present has returned: nine stages, a blurred overlay composited, speckle set.
C8_Witness ==
    /\ fr.stage = "done" /\ fr.lines # <<>>
    /\ fr.params.noise_lines > 0 /\ fr.params.blur_shapes > 0
    /\ fr.params.extra_noise_shapes > 0 /\ fr.params.pixel_noise_density > 0
    /\ Len(fr.log) = 9
    /\ \E i \in 1..Len(fr.base.px) :
          /\ fr.base.px[i].k = "composite"
          /\ fr.base.px[i].sub[Len(fr.base.px[i].sub)].k = "blur"
    /\ \E i \in 1..Len(fr.base.px) : fr.base.px[i].k = "pixel"

\* The characters of a canvas in drawing order, each <<row, column, character>>,
\* rows and columns counted from 0.
RECURSIVE Cells(_, _)
Cells(ls, r) ==
    IF r > Len(ls) THEN <<>>
    ELSE [c \in 1..Len(ls[r]) |-> <<r - 1, c - 1, ls[r][c]>>] \o Cells(ls, r + 1)

Quiet(q) ==
    /\ q.noise_lines = 0 /\ q.blur_shapes = 0 /\ q.extra_noise_shapes = 0
    /\ q.pixel_noise_density = 0 /\ ~q.apply_blur

\* C9: with noise_lines = 0, blur_shapes = 0, extra_noise_shapes = 0,
\* pixel_noise_density = 0.0 and apply_blur = false, make_image draws no line,
\* shape or speckle, takes two jitter draws per character and no other draw,
\* and returns the jittered text layer alone, flattened to RGB.
C9_ZeroNoiseIsTextOnly ==
    (fr.stage # "off" /\ fr.lines # <<>> /\ Quiet(fr.params)) =>
        LET cells == Cells(fr.lines, 1)
            j == fr.params.jitter
            jit(o) == (o * (2 * j + 1)) \div RngMod - j
        IN /\ \A i \in 1..Len(fr.base.px) : fr.base.px[i].k = "text"
           /\ fr.shape.px = <<>>
           /\ Len(fr.rs.out) <= 2 * Len(cells)
           /\ fr.stage \notin {"entry", "text"} =>
                 /\ Len(fr.rs.out) = 2 * Len(cells)
                 /\ Len(fr.base.px) = Len(cells)
                 /\ \A k \in 1..Len(cells) :
                       /\ fr.base.px[k].s = cells[k][3]
                       /\ fr.base.px[k].a =
                             <<cells[k][2] * (fr.params.font_size \div 2 + fr.params.spacing)
                                   + jit(fr.rs.out[2 * k - 1]),
                               cells[k][1] * (fr.params.font_size + 2) + jit(fr.rs.out[2 * k])>>
           /\ fr.stage = "done" => fr.base.mode = "RGB"

\* A two-line canvas has been rendered with every noise parameter 0, jitter 1 and a positive overlay blur radius.
C9_Witness ==
    /\ fr.stage = "done" /\ Len(fr.lines) = 2 /\ Quiet(fr.params)
    /\ fr.params.jitter = 1 /\ fr.params.shape_blur_radius > 0
    /\ Len(fr.base.px) = 4
    /\ fr.base.px[1].a # <<0, 0>>

(***************************************************************************)
(* Properties of generate_image_from_cfg.                                  *)
(***************************************************************************)
\* C2: two calls with the same configured seed, the same configuration and the
\* same fixed code take the same draws in the same order and end alike, with
\* the same image and the same code, whatever calls ran before or between them.
C2_SeededCallsRepeat ==
    \A a \in history : \A b \in history :
        (a.cfg = b.cfg /\ a.cfg.random_seed # None) =>
            /\ a.img = b.img /\ a.code = b.code /\ a.err = b.err
            /\ a.draws = b.draws

\* A seeded slot with a fixed code has completed all its calls, with draws and drawing, beside an unseeded slot that drew from the shared generator.
C2_Witness ==
    /\ runs[1] = MaxRuns /\ runs[2] >= 1
    /\ cfg[1].random_seed # None /\ cfg[1].fixed_code = Some(<<"A">>)
    /\ cfg[2].random_seed = None
    /\ \E a \in history : a.cfg = cfg[1] /\ a.err = "none" /\ a.code = <<"A">>
                            /\ Len(a.draws.own) > 2 /\ Len(a.img.px) > 2
    /\ \E b \in history : b.cfg = cfg[2] /\ Len(b.draws.glob) > 2

\* C3 as claimed: a code that is empty or all spaces never makes generation
\* fail; the call returns the 2x2 blank image.
C3_DegenerateCodeNeverFails ==
    \A a \in history :
        (\A i \in 1..Len(a.code) : a.code[i] = " ") =>
            (a.err = "none" /\ a.img = NewImage("RGB", <<2, 2>>))

\* C4 as claimed: with a palette of fewer than 2 characters no glyph reaches the
\* palette lookup, and the call ends in a configuration error.
C4_ShortPaletteRejected ==
    /\ \A c \in DOMAIN pc : Len(cfg[c].ascii_chars) < 2 => ascii[c].mapped = 0
    /\ \A a \in history : Len(a.cfg.ascii_chars) < 2 => a.err = "ConfigurationError"

\* C7 as claimed: whenever a fixed code is supplied, whatever string it is, the
\* call that returns returns that string as the code and took no draw to
\* generate a code.
C7_FixedCodePassesThrough ==
    \A a \in history :
        (a.cfg.fixed_code # None /\ a.err = "none") =>
            (a.code = a.cfg.fixed_code[1] /\ a.draws.code = 0)

\* The draws of a generator seeded with sd: each raw output follows the one before.
SeededDraws(out, sd) ==
    \A i \in 1..Len(out) :
        out[i] = RngNext(IF i = 1 THEN Seeded(sd) ELSE out[i - 1])

\* A call in progress draws from the generator its seed decides.
DrawsFromOwn(c) ==
    IF cfg[c].random_seed # None
    THEN /\ rng[c] = "Random" /\ ownRng[c] # None
         /\ drawn[c].glob = <<>>
         /\ SeededDraws(drawn[c].own, cfg[c].random_seed[1])
         /\ ownRng[c][1] = (IF drawn[c].own = <<>> THEN Seeded(cfg[c].random_seed[1])
                            ELSE drawn[c].own[Len(drawn[c].own)])
    ELSE /\ rng[c] = "random" /\ ownRng[c] = None
         /\ drawn[c].own = <<>>

\* A step of a seeded call leaves the process-wide generator as it was, and no
\* step of one call touches the generator or the draws of another.
LeavesOthersAlone ==
    \A c \in DOMAIN pc :
        pc'[c] # pc[c] =>
            /\ cfg[c].random_seed # None => globalRng' = globalRng
            /\ \A d \in DOMAIN pc \ {c} : ownRng'[d] = ownRng[d] /\ drawn'[d] = drawn[d]

\* C10: a call with a configured seed, 0 included, makes a generator of its own,
\* seeded with it, and takes every draw of code generation and rendering from
\* it: the process-wide generator is unchanged by the call, and calls running
\* side by side do not affect one another's draws.  A call with no seed
\* configured makes no generator and draws from the process-wide one.
C10_SeededCallsIsolated ==
    /\ [](\A c \in DOMAIN pc : pc[c] # "start" => DrawsFromOwn(c))
    /\ [](\A a \in history : IF a.cfg.random_seed # None
                               THEN a.draws.glob = <<>> /\ SeededDraws(a.draws.own, a.cfg.random_seed[1])
                               ELSE a.draws.own = <<>>)
    /\ [][LeavesOthersAlone]_vars

\* A call seeded with 0 and an unseeded call stand side by side after rendering, each having drawn, the seeded slot having completed a call before.
C10_Witness ==
    /\ cfg[1].random_seed = Some(0) /\ cfg[2].random_seed = None
    /\ pc[1] = "return" /\ Len(drawn[1].own) > 2
    /\ pc[2] = "return" /\ Len(drawn[2].glob) > 2
    /\ \E a \in history : a.cfg = cfg[1]

====
